---------------------------- MODULE Spec2Model ----------------------------
(***************************************************************************)
(* The concurrency programs of the repository:                             *)
(*                                                                         *)
(*   ex10  src/Concurrency/10_Thread_ConditionVariable_example.cpp         *)
(*         Download (producer) / ProcessData (consumer) / main             *)
(*   ex9   src/Concurrency/9_Thread_condition_variable.cpp                 *)
(*         Producer / Consumer / main                                      *)
(*   ex5   src/Concurrency/5_Thread_mutex.cpp                              *)
(*         Download / Download2 / main                                     *)
(*   ex8   src/Thread/8_Thread_promise.cpp                                 *)
(*         Operation / main                                                *)
(*   ex1   src/Concurrency/1_Thread_creation.cpp                           *)
(*         Download / main                                                 *)
(*                                                                         *)
(* Every statement that touches shared state, the mutex, the condition     *)
(* variable or the standard output is one atomic step of its thread.       *)
(* Thread-local bookkeeping (loop counters, loop tests on locals, sleeps)  *)
(* is folded into the neighbouring step.                                   *)
(*                                                                         *)
(* std::condition_variable::wait(lock, pred) is `while (!pred()) wait(lock)`*)
(* : the predicate is tested with the mutex held; wait(lock) atomically    *)
(* releases the mutex and enters the set of waiters; a waiter leaves that  *)
(* set by notify_one or spuriously, and then has to re-acquire the mutex   *)
(* and re-test the predicate.                                              *)
(***************************************************************************)
EXTENDS Integers, Sequences, FiniteSets, TLC

\* ------------------------------------------------------------------------
\* Program constants and model bounds

\* const int SIZE = 10 (ex10)
SIZE == 10

\* const int SIZE = 5 (ex9)
SIZE9 == 5

\* The several-consumer configuration is not one the source runs (main starts
\* exactly one ProcessData thread). It is explored with 1..MaxConsumers
\* threads running ProcessData and a Download that pushes 1..MaxItems items.
MaxConsumers == 2
MaxItems == 3

\* The repeated-shutdown configuration is not one the source runs either: in
\* it Download runs its shutdown step (lines 38-42) 1..MaxCloses times.
MaxCloses == 2

\* const int SIZE (ex5). The source sets it to 100000; the two workers are
\* explored with this many iterations each.
SIZE5 == 3

\* const int SIZE (ex1). The source sets it to 5000000; Download is explored
\* with this many iterations.
SIZE1 == 5

VARIABLES
    program,             \* which program runs: "ex10" or "ex9"
    \* ---- ex10
    g_Data,              \* std::list<int> g_Data
    g_DownloadFinished,  \* bool g_DownloadFinished
    g_Mutex,             \* owner of std::mutex g_Mutex, or NoThread
    g_CV,                \* threads suspended inside g_CV.wait
    pc,                  \* position of every ex10 thread
    i,                   \* Download's loop variable
    value,               \* ProcessData's local `value` (<<>> out of scope)
    consumers,           \* the threads that run ProcessData
    size,                \* the number of items Download pushes: SIZE in the
                         \* program as written, 1..MaxItems with several consumers
    closes,              \* how many times Download runs its shutdown step
                         \* (lines 38-42): once in the program as written
    closed,              \* how many times it has run it so far
    cstate,              \* consumer state: WAITING / DELIVERING / DONE
    processed,           \* values printed by "[Processor] Processed"
    out,                 \* the shutdown lines of stdout, in print order
    \* ---- ex9
    g_data,              \* std::queue<int> g_data
    mtx,                 \* owner of std::mutex mtx, or "none"
    cv,                  \* threads suspended inside cv.wait
    pc9,                 \* position of every ex9 thread
    i_P,                 \* Producer's loop variable
    i_C,                 \* Consumer's loop variable
    item,                \* Consumer's local `item` (<<>> out of scope)
    consumed,            \* values printed by "[Consumer] Consumed:"
    out9,                \* the lines of Producer and Consumer on stdout
    \* ---- ex5
    g_Data5,             \* std::list<int> g_Data
    g_Mutex5,            \* owner of std::mutex g_Mutex, or "none"
    pc5,                 \* position of every ex5 thread
    i5,                  \* the loop variable i of each worker
    tail5,               \* push_back in progress: the list a worker found
    out5,                \* what main has printed (<<>>, or the size)
    \* ---- ex8
    data8,               \* shared state of std::promise<int> data
    f8,                  \* the task's future f: "none", "valid", "retrieved"
    result8,             \* main's future result: "none", "valid", "retrieved"
    ret8,                \* shared state of result: <<>>, or Operation's return value
    pc8,                 \* position of main and of the task
    count8,              \* Operation's local count
    sum8,                \* Operation's local sum
    i8,                  \* Operation's loop variable i
    sumMain8,            \* main's local sum: <<>>, or what result.get() returned
    out8,                \* stdout, one entry per output statement
    sets8,               \* completed set_value / set_exception calls
    gets8,               \* get() calls made on f and on result
    \* ---- ex1
    g_Data1,             \* std::list<int> g_Data
    pc1,                 \* position of main and of the Download thread
    i1,                  \* Download's loop variable i
    joinable1,           \* threadObj.joinable()
    exit1,               \* how the process ended: "running", "normal", "terminate"
    out1,                \* stdout, one entry per output statement
    \* ---- history
    pushed,              \* values appended to the queue so far, in order
    popped               \* values removed from the queue so far, in order

config == <<consumers, size, closes>>
vars10 == <<g_Data, g_DownloadFinished, g_Mutex, g_CV, pc, i, value,
            config, closed, cstate, processed, out>>
vars9 == <<g_data, mtx, cv, pc9, i_P, i_C, item, consumed, out9>>
vars5 == <<g_Data5, g_Mutex5, pc5, i5, tail5, out5>>
vars8 == <<data8, f8, result8, ret8, pc8, count8, sum8, i8, sumMain8, out8, sets8, gets8>>
vars1 == <<g_Data1, pc1, i1, joinable1, exit1, out1>>
vars == <<program, vars10, vars9, vars5, vars8, vars1, pushed, popped>>

\* ------------------------------------------------------------------------
\* Threads

MainT == <<"main", 0>>
ProducerT == <<"producer", 0>>
ConsumerT(k) == <<"consumer", k>>
NoThread == <<"none", 0>>
AllConsumers == {ConsumerT(k) : k \in 1..MaxConsumers}
Threads == {MainT, ProducerT} \cup AllConsumers

Threads9 == {"main", "t1", "t2"}

\* ex5: thDownloader runs Download, thDownloader2 runs Download2
Workers5 == {"thDownloader", "thDownloader2"}
Threads5 == {"main"} \cup Workers5

\* ex8: main, and the thread std::async runs Operation on
Threads8 == {"main", "task"}

\* ex1: main, and the thread that threadObj stands for
Threads1 == {"main", "threadObj"}

\* ------------------------------------------------------------------------
\* Library primitives

IsPrefix(s, t) == Len(s) <= Len(t) /\ SubSeq(t, 1, Len(s)) = s

\* Mutant of PushBack: the item goes to the head of the container.
PushBack_AtFront(q, v) == <<v>> \o q

\* std::list::push_back / std::queue::push
PushBack(q, v) == Append(q, v)

\* The ints an undefined read is let to produce: every value a program pushes.
Int32Sample == 0..SIZE

\* front() of the container; on an empty container the behaviour is
\* undefined: any int may come back.
FrontValues(q) == IF q = <<>> THEN Int32Sample ELSE {Head(q)}

\* Mutant of PopFront: the front element stays in the container.
PopFront_Keep(q) == q

\* pop_front() / pop(); on an empty container (undefined) nothing is removed.
PopFront(q) == IF q = <<>> THEN <<>> ELSE Tail(q)

\* Mutant of MutexFree: lock() does not wait for the owner to unlock.
MutexFree_NoWait(m) == TRUE

\* std::mutex::lock succeeds only on a mutex nobody owns.
MutexFree(m) == m = NoThread
MutexFree9(m) == m = "none"

\* Mutant of NotifyOne: the notification is lost.
NotifyOne_Lost(waiters) == {waiters}

\* notify_one: if any thread waits, one of them (any) is woken.
NotifyOne(waiters) ==
    IF waiters = {} THEN {waiters} ELSE {waiters \ {t} : t \in waiters}

\* ------------------------------------------------------------------------
\* A program that is not the one running

Idle5 ==
    /\ g_Data5 = <<>>
    /\ g_Mutex5 = "none"
    /\ pc5 = [t \in Threads5 |-> "off"]
    /\ i5 = [t \in Workers5 |-> 0]
    /\ tail5 = [t \in Workers5 |-> <<>>]
    /\ out5 = <<>>

Idle1 ==
    /\ g_Data1 = <<>>
    /\ pc1 = [t \in Threads1 |-> "off"]
    /\ i1 = 0
    /\ joinable1 = FALSE
    /\ exit1 = "running"
    /\ out1 = <<>>

\* A shared state that holds neither a value nor an exception
EmptyState == [kind |-> "empty", val |-> 0]

Idle8 ==
    /\ data8 = EmptyState
    /\ f8 = "none"
    /\ result8 = "none"
    /\ ret8 = <<>>
    /\ pc8 = [t \in Threads8 |-> "off"]
    /\ count8 = 0
    /\ sum8 = 0
    /\ i8 = 0
    /\ sumMain8 = <<>>
    /\ out8 = <<>>
    /\ sets8 = [value |-> 0, exception |-> 0]
    /\ gets8 = [f |-> 0, result |-> 0]

\* ------------------------------------------------------------------------
\* ex10: initial state

Init10Common ==
    /\ program = "ex10"
    /\ g_Data = <<>>
    /\ g_DownloadFinished = FALSE
    /\ g_Mutex = NoThread
    /\ g_CV = {}
    /\ pc = [t \in Threads |-> IF t = MainT THEN "m_spawnP" ELSE "off"]
    /\ i = 0
    /\ closed = 0
    /\ value = [c \in AllConsumers |-> <<>>]
    /\ cstate = [c \in AllConsumers |-> "WAITING"]
    /\ processed = <<>>
    /\ out = <<>>
    /\ pushed = <<>>
    /\ popped = <<>>
    /\ Idle5
    /\ Idle8
    /\ Idle1

Idle9 ==
    /\ g_data = <<>>
    /\ mtx = "none"
    /\ cv = {}
    /\ pc9 = [t \in Threads9 |-> "off"]
    /\ i_P = 1
    /\ i_C = 1
    /\ item = <<>>
    /\ consumed = <<>>
    /\ out9 = <<>>

\* main as written: one producer, one consumer
Init10 ==
    /\ Init10Common
    /\ consumers = {ConsumerT(1)}
    /\ size = SIZE
    /\ closes = 1
    /\ Idle9

\* ------------------------------------------------------------------------
\* ex10: main

MainSpawnProducer ==
    /\ pc[MainT] = "m_spawnP"
    /\ pc' = [pc EXCEPT ![MainT] = "m_spawnC", ![ProducerT] = "p_start"]
    /\ UNCHANGED <<program, g_Data, g_DownloadFinished, g_Mutex, g_CV, i,
                   value, config, closed, cstate, processed, out, vars9, vars5, vars8, vars1,
                   pushed, popped>>

MainSpawnConsumer ==
    /\ pc[MainT] = "m_spawnC"
    /\ \E c \in consumers :
        /\ pc[c] = "off"
        /\ \A d \in consumers : d[2] < c[2] => pc[d] # "off"
        /\ pc' = [pc EXCEPT
                    ![c] = "c_start",
                    ![MainT] = IF \A d \in consumers \ {c} : pc[d] # "off"
                               THEN "m_joinP" ELSE "m_spawnC"]
    /\ UNCHANGED <<program, g_Data, g_DownloadFinished, g_Mutex, g_CV, i,
                   value, config, closed, cstate, processed, out, vars9, vars5, vars8, vars1,
                   pushed, popped>>

\* Mutant of MainJoinProducer: main does not wait for Download to return.
MainJoinProducer_NoWait ==
    /\ pc[MainT] = "m_joinP"
    /\ pc' = [pc EXCEPT ![MainT] = "m_joinC"]
    /\ UNCHANGED <<program, g_Data, g_DownloadFinished, g_Mutex, g_CV, i,
                   value, config, closed, cstate, processed, out, vars9, vars5, vars8, vars1,
                   pushed, popped>>

MainJoinProducer ==
    /\ pc[MainT] = "m_joinP"
    /\ pc[ProducerT] = "p_done"
    /\ pc' = [pc EXCEPT ![MainT] = "m_joinC"]
    /\ UNCHANGED <<program, g_Data, g_DownloadFinished, g_Mutex, g_CV, i,
                   value, config, closed, cstate, processed, out, vars9, vars5, vars8, vars1,
                   pushed, popped>>

MainJoinConsumer ==
    /\ pc[MainT] = "m_joinC"
    /\ \A c \in consumers : pc[c] = "c_done"
    /\ pc' = [pc EXCEPT ![MainT] = "m_print"]
    /\ UNCHANGED <<program, g_Data, g_DownloadFinished, g_Mutex, g_CV, i,
                   value, config, closed, cstate, processed, out, vars9, vars5, vars8, vars1,
                   pushed, popped>>

MainPrint ==
    /\ pc[MainT] = "m_print"
    /\ out' = Append(out, "[main] Program finished safely.")
    /\ pc' = [pc EXCEPT ![MainT] = "m_done"]
    /\ UNCHANGED <<program, g_Data, g_DownloadFinished, g_Mutex, g_CV, i,
                   value, config, closed, cstate, processed, vars9, vars5, vars8, vars1,
                   pushed, popped>>

MainStep ==
    \/ MainSpawnProducer
    \/ MainSpawnConsumer
    \/ MainJoinProducer
    \/ MainJoinConsumer
    \/ MainPrint

\* ------------------------------------------------------------------------
\* ex10: Download (the producer)

\* line 26, and the first test of the for loop (SIZE > 0)
DownloadStart ==
    /\ pc[ProducerT] = "p_start"
    /\ pc' = [pc EXCEPT ![ProducerT] = IF i < size THEN "p_lock" ELSE "p_lockF"]
    /\ UNCHANGED <<program, g_Data, g_DownloadFinished, g_Mutex, g_CV, i,
                   value, config, closed, cstate, processed, out, vars9, vars5, vars8, vars1,
                   pushed, popped>>

\* Mutant of DownloadLock: a bounded queue, the producer waits until the
\* consumer has emptied it.
DownloadLock_Backpressure ==
    /\ pc[ProducerT] = "p_lock"
    /\ g_Data = <<>>
    /\ MutexFree(g_Mutex)
    /\ g_Mutex' = ProducerT
    /\ pc' = [pc EXCEPT ![ProducerT] = "p_push"]
    /\ UNCHANGED <<program, g_Data, g_DownloadFinished, g_CV, i,
                   value, config, closed, cstate, processed, out, vars9, vars5, vars8, vars1,
                   pushed, popped>>

\* line 31: std::lock_guard<std::mutex> lock(g_Mutex)
DownloadLock ==
    /\ pc[ProducerT] = "p_lock"
    /\ MutexFree(g_Mutex)
    /\ g_Mutex' = ProducerT
    /\ pc' = [pc EXCEPT ![ProducerT] = "p_push"]
    /\ UNCHANGED <<program, g_Data, g_DownloadFinished, g_CV, i,
                   value, config, closed, cstate, processed, out, vars9, vars5, vars8, vars1,
                   pushed, popped>>

\* Mutant of DownloadPush: the producer declares the shutdown with its first
\* push.
DownloadPush_SetsFlag ==
    /\ pc[ProducerT] = "p_push"
    /\ g_Data' = PushBack(g_Data, i)
    /\ pushed' = Append(pushed, i)
    /\ g_DownloadFinished' = TRUE
    /\ pc' = [pc EXCEPT ![ProducerT] = "p_print"]
    /\ UNCHANGED <<program, g_Mutex, g_CV, i,
                   value, config, closed, cstate, processed, out, vars9, vars5, vars8, vars1, popped>>

\* Mutant of DownloadPush: the items are numbered from 1.
DownloadPush_FromOne ==
    /\ pc[ProducerT] = "p_push"
    /\ g_Data' = PushBack(g_Data, i + 1)
    /\ pushed' = Append(pushed, i + 1)
    /\ pc' = [pc EXCEPT ![ProducerT] = "p_print"]
    /\ UNCHANGED <<program, g_DownloadFinished, g_Mutex, g_CV, i,
                   value, config, closed, cstate, processed, out, vars9, vars5, vars8, vars1, popped>>

\* line 32: g_Data.push_back(i)
DownloadPush ==
    /\ pc[ProducerT] = "p_push"
    /\ g_Data' = PushBack(g_Data, i)
    /\ pushed' = Append(pushed, i)
    /\ pc' = [pc EXCEPT ![ProducerT] = "p_print"]
    /\ UNCHANGED <<program, g_DownloadFinished, g_Mutex, g_CV, i,
                   value, config, closed, cstate, processed, out, vars9, vars5, vars8, vars1, popped>>

\* line 33: "[Downloader] Pushed i", still inside the lock_guard's scope
DownloadPrint ==
    /\ pc[ProducerT] = "p_print"
    /\ pc' = [pc EXCEPT ![ProducerT] = "p_unlock"]
    /\ UNCHANGED <<program, g_Data, g_DownloadFinished, g_Mutex, g_CV, i,
                   value, config, closed, cstate, processed, out, vars9, vars5, vars8, vars1,
                   pushed, popped>>

\* line 34: the lock_guard's scope ends
DownloadUnlock ==
    /\ pc[ProducerT] = "p_unlock"
    /\ g_Mutex' = NoThread
    /\ pc' = [pc EXCEPT ![ProducerT] = "p_notify"]
    /\ UNCHANGED <<program, g_Data, g_DownloadFinished, g_CV, i,
                   value, config, closed, cstate, processed, out, vars9, vars5, vars8, vars1,
                   pushed, popped>>

\* line 35: g_CV.notify_one(); then ++i and the loop test of line 28
DownloadNotify ==
    /\ pc[ProducerT] = "p_notify"
    /\ g_CV' \in NotifyOne(g_CV)
    /\ i' = i + 1
    /\ pc' = [pc EXCEPT ![ProducerT] = IF i + 1 < size THEN "p_lock" ELSE "p_lockF"]
    /\ UNCHANGED <<program, g_Data, g_DownloadFinished, g_Mutex,
                   value, config, closed, cstate, processed, out, vars9, vars5, vars8, vars1,
                   pushed, popped>>

\* line 39: std::lock_guard<std::mutex> lock(g_Mutex)
DownloadLockFinished ==
    /\ pc[ProducerT] = "p_lockF"
    /\ MutexFree(g_Mutex)
    /\ g_Mutex' = ProducerT
    /\ pc' = [pc EXCEPT ![ProducerT] = "p_setF"]
    /\ UNCHANGED <<program, g_Data, g_DownloadFinished, g_CV, i,
                   value, config, closed, cstate, processed, out, vars9, vars5, vars8, vars1,
                   pushed, popped>>

\* Mutant of DownloadSetFinished: the shutdown step flips the flag.
DownloadSetFinished_Toggle ==
    /\ pc[ProducerT] = "p_setF"
    /\ g_DownloadFinished' = ~g_DownloadFinished
    /\ pc' = [pc EXCEPT ![ProducerT] = "p_unlockF"]
    /\ UNCHANGED <<program, g_Data, g_Mutex, g_CV, i,
                   value, config, closed, cstate, processed, out, vars9, vars5, vars8, vars1,
                   pushed, popped>>

\* line 40: g_DownloadFinished = true
DownloadSetFinished ==
    /\ pc[ProducerT] = "p_setF"
    /\ g_DownloadFinished' = TRUE
    /\ pc' = [pc EXCEPT ![ProducerT] = "p_unlockF"]
    /\ UNCHANGED <<program, g_Data, g_Mutex, g_CV, i,
                   value, config, closed, cstate, processed, out, vars9, vars5, vars8, vars1,
                   pushed, popped>>

\* line 41: the lock_guard's scope ends
DownloadUnlockFinished ==
    /\ pc[ProducerT] = "p_unlockF"
    /\ g_Mutex' = NoThread
    /\ pc' = [pc EXCEPT ![ProducerT] = "p_notifyF"]
    /\ UNCHANGED <<program, g_Data, g_DownloadFinished, g_CV, i,
                   value, config, closed, cstate, processed, out, vars9, vars5, vars8, vars1,
                   pushed, popped>>

\* line 42: g_CV.notify_one(); the shutdown step has been run once more
DownloadNotifyFinished ==
    /\ pc[ProducerT] = "p_notifyF"
    /\ g_CV' \in NotifyOne(g_CV)
    /\ closed' = closed + 1
    /\ pc' = [pc EXCEPT ![ProducerT] =
                  IF closed + 1 < closes THEN "p_lockF" ELSE "p_finish"]
    /\ UNCHANGED <<program, g_Data, g_DownloadFinished, g_Mutex, i,
                   value, config, cstate, processed, out, vars9, vars5, vars8, vars1,
                   pushed, popped>>

\* line 44: "[Downloader] Finished download", and the return
DownloadFinish ==
    /\ pc[ProducerT] = "p_finish"
    /\ out' = Append(out, "[Downloader] Finished download")
    /\ pc' = [pc EXCEPT ![ProducerT] = "p_done"]
    /\ UNCHANGED <<program, g_Data, g_DownloadFinished, g_Mutex, g_CV, i,
                   value, config, closed, cstate, processed, vars9, vars5, vars8, vars1,
                   pushed, popped>>

Download ==
    \/ DownloadStart
    \/ DownloadLock
    \/ DownloadPush
    \/ DownloadPrint
    \/ DownloadUnlock
    \/ DownloadNotify
    \/ DownloadLockFinished
    \/ DownloadSetFinished
    \/ DownloadUnlockFinished
    \/ DownloadNotifyFinished
    \/ DownloadFinish

\* ------------------------------------------------------------------------
\* ex10: ProcessData (the consumer)

\* Mutant of WaitPredicate: the flag is left out of the predicate.
WaitPredicate_NoFlag == g_Data # <<>>

\* line 55: the predicate of g_CV.wait
WaitPredicate == g_Data # <<>> \/ g_DownloadFinished

\* Mutant of ExitCondition: the flag is left out of the exit test.
ExitCondition_EmptyOnly == g_Data = <<>>

\* line 67: the exit test
ExitCondition == g_DownloadFinished /\ g_Data = <<>>

\* line 49: "[Processor] Waiting for data..."
ProcessDataStart(c) ==
    /\ pc[c] = "c_start"
    /\ pc' = [pc EXCEPT ![c] = "c_lock"]
    /\ UNCHANGED <<program, g_Data, g_DownloadFinished, g_Mutex, g_CV, i,
                   value, config, closed, cstate, processed, out, vars9, vars5, vars8, vars1,
                   pushed, popped>>

\* line 52: std::unique_lock<std::mutex> lock(g_Mutex)
ProcessDataLock(c) ==
    /\ pc[c] = "c_lock"
    /\ MutexFree(g_Mutex)
    /\ g_Mutex' = c
    /\ pc' = [pc EXCEPT ![c] = "c_wait"]
    /\ UNCHANGED <<program, g_Data, g_DownloadFinished, g_CV, i,
                   value, config, closed, cstate, processed, out, vars9, vars5, vars8, vars1,
                   pushed, popped>>

\* line 55: g_CV.wait(lock, pred) tests its predicate (on entry, and again
\* after every wake-up); the consumer is in the wait from here on.
ProcessDataWait(c) ==
    /\ pc[c] = "c_wait"
    /\ cstate' = [cstate EXCEPT ![c] = "WAITING"]
    /\ pc' = [pc EXCEPT ![c] = IF WaitPredicate THEN "c_while" ELSE "c_block"]
    /\ UNCHANGED <<program, g_Data, g_DownloadFinished, g_Mutex, g_CV, i,
                   value, config, closed, processed, out, vars9, vars5, vars8, vars1,
                   pushed, popped>>

\* line 55: the predicate was false: wait(lock) atomically releases the
\* mutex and suspends the thread.
ProcessDataSuspend(c) ==
    /\ pc[c] = "c_block"
    /\ g_Mutex' = NoThread
    /\ g_CV' = g_CV \cup {c}
    /\ pc' = [pc EXCEPT ![c] = "c_blocked"]
    /\ UNCHANGED <<program, g_Data, g_DownloadFinished, i,
                   value, config, closed, cstate, processed, out, vars9, vars5, vars8, vars1,
                   pushed, popped>>

\* Mutant of ProcessDataReacquire: a wait without predicate, which returns
\* on any wake-up.
ProcessDataReacquire_NoRetest(c) ==
    /\ pc[c] = "c_blocked"
    /\ c \notin g_CV
    /\ MutexFree(g_Mutex)
    /\ g_Mutex' = c
    /\ pc' = [pc EXCEPT ![c] = "c_while"]
    /\ UNCHANGED <<program, g_Data, g_DownloadFinished, g_CV, i,
                   value, config, closed, cstate, processed, out, vars9, vars5, vars8, vars1,
                   pushed, popped>>

\* line 55: a woken thread (notified, or woken spuriously) re-acquires the
\* mutex and goes back to the predicate.
ProcessDataReacquire(c) ==
    /\ pc[c] = "c_blocked"
    /\ c \notin g_CV
    /\ MutexFree(g_Mutex)
    /\ g_Mutex' = c
    /\ pc' = [pc EXCEPT ![c] = "c_wait"]
    /\ UNCHANGED <<program, g_Data, g_DownloadFinished, g_CV, i,
                   value, config, closed, cstate, processed, out, vars9, vars5, vars8, vars1,
                   pushed, popped>>

\* line 58: while (!g_Data.empty()); when it fails, on to line 67
ProcessDataWhile(c) ==
    /\ pc[c] = "c_while"
    /\ pc' = [pc EXCEPT ![c] = IF g_Data # <<>> THEN "c_front" ELSE "c_if"]
    /\ UNCHANGED <<program, g_Data, g_DownloadFinished, g_Mutex, g_CV, i,
                   value, config, closed, cstate, processed, out, vars9, vars5, vars8, vars1,
                   pushed, popped>>

\* lines 59-60: int value = g_Data.front(); g_Data.pop_front()
ProcessDataPop(c) ==
    /\ pc[c] = "c_front"
    /\ \E v \in FrontValues(g_Data) :
        /\ value' = [value EXCEPT ![c] = <<v>>]
        /\ popped' = Append(popped, v)
    /\ g_Data' = PopFront(g_Data)
    /\ cstate' = [cstate EXCEPT ![c] = "DELIVERING"]
    /\ pc' = [pc EXCEPT ![c] = "c_unlock"]
    /\ UNCHANGED <<program, g_DownloadFinished, g_Mutex, g_CV, i,
                   config, closed, processed, out, vars9, vars5, vars8, vars1, pushed>>

\* Mutant of ProcessDataUnlock: the item is processed with the lock held.
ProcessDataUnlock_Keep(c) ==
    /\ pc[c] = "c_unlock"
    /\ pc' = [pc EXCEPT ![c] = "c_print"]
    /\ UNCHANGED <<program, g_Data, g_DownloadFinished, g_Mutex, g_CV, i,
                   value, config, closed, cstate, processed, out, vars9, vars5, vars8, vars1,
                   pushed, popped>>

\* line 61: lock.unlock()
ProcessDataUnlock(c) ==
    /\ pc[c] = "c_unlock"
    /\ g_Mutex' = NoThread
    /\ pc' = [pc EXCEPT ![c] = "c_print"]
    /\ UNCHANGED <<program, g_Data, g_DownloadFinished, g_CV, i,
                   value, config, closed, cstate, processed, out, vars9, vars5, vars8, vars1,
                   pushed, popped>>

\* line 62: "[Processor] Processed value"
ProcessDataPrint(c) ==
    /\ pc[c] = "c_print"
    /\ processed' = Append(processed, value[c][1])
    /\ pc' = [pc EXCEPT ![c] = "c_relock"]
    /\ UNCHANGED <<program, g_Data, g_DownloadFinished, g_Mutex, g_CV, i,
                   value, config, closed, cstate, out, vars9, vars5, vars8, vars1, pushed, popped>>

\* Mutant of ProcessDataRelock: after the lock is taken again the loop goes
\* on to front() without testing empty() again.
ProcessDataRelock_NoRetest(c) ==
    /\ pc[c] = "c_relock"
    /\ MutexFree(g_Mutex)
    /\ g_Mutex' = c
    /\ value' = [value EXCEPT ![c] = <<>>]
    /\ pc' = [pc EXCEPT ![c] = "c_front"]
    /\ UNCHANGED <<program, g_Data, g_DownloadFinished, g_CV, i,
                   config, closed, cstate, processed, out, vars9, vars5, vars8, vars1,
                   pushed, popped>>

\* line 63: lock.lock(); `value` goes out of scope at line 64
ProcessDataRelock(c) ==
    /\ pc[c] = "c_relock"
    /\ MutexFree(g_Mutex)
    /\ g_Mutex' = c
    /\ value' = [value EXCEPT ![c] = <<>>]
    /\ pc' = [pc EXCEPT ![c] = "c_while"]
    /\ UNCHANGED <<program, g_Data, g_DownloadFinished, g_CV, i,
                   config, closed, cstate, processed, out, vars9, vars5, vars8, vars1,
                   pushed, popped>>

\* Mutant of ProcessDataExitTest: the consumer clears the flag when it
\* leaves.
ProcessDataExitTest_ClearFlag(c) ==
    /\ pc[c] = "c_if"
    /\ IF ExitCondition
         THEN /\ pc' = [pc EXCEPT ![c] = "c_break"]
              /\ cstate' = [cstate EXCEPT ![c] = "DONE"]
              /\ g_DownloadFinished' = FALSE
         ELSE /\ pc' = [pc EXCEPT ![c] = "c_iterEnd"]
              /\ cstate' = cstate
              /\ g_DownloadFinished' = g_DownloadFinished
    /\ UNCHANGED <<program, g_Data, g_Mutex, g_CV, i,
                   value, config, closed, processed, out, vars9, vars5, vars8, vars1,
                   pushed, popped>>

\* line 67: if (g_DownloadFinished && g_Data.empty()) break
ProcessDataExitTest(c) ==
    /\ pc[c] = "c_if"
    /\ IF ExitCondition
         THEN /\ pc' = [pc EXCEPT ![c] = "c_break"]
              /\ cstate' = [cstate EXCEPT ![c] = "DONE"]
         ELSE /\ pc' = [pc EXCEPT ![c] = "c_iterEnd"]
              /\ cstate' = cstate
    /\ UNCHANGED <<program, g_Data, g_DownloadFinished, g_Mutex, g_CV, i,
                   value, config, closed, processed, out, vars9, vars5, vars8, vars1,
                   pushed, popped>>

\* line 70: the loop body ends, the unique_lock is destroyed, next iteration
ProcessDataIterEnd(c) ==
    /\ pc[c] = "c_iterEnd"
    /\ g_Mutex' = NoThread
    /\ pc' = [pc EXCEPT ![c] = "c_lock"]
    /\ UNCHANGED <<program, g_Data, g_DownloadFinished, g_CV, i,
                   value, config, closed, cstate, processed, out, vars9, vars5, vars8, vars1,
                   pushed, popped>>

\* Mutant of ProcessDataBreak: the loop goes on after the exit test passed.
ProcessDataBreak_Continue(c) ==
    /\ pc[c] = "c_break"
    /\ g_Mutex' = NoThread
    /\ pc' = [pc EXCEPT ![c] = "c_lock"]
    /\ UNCHANGED <<program, g_Data, g_DownloadFinished, g_CV, i,
                   value, config, closed, cstate, processed, out, vars9, vars5, vars8, vars1,
                   pushed, popped>>

\* line 68: break leaves the loop body, the unique_lock is destroyed
ProcessDataBreak(c) ==
    /\ pc[c] = "c_break"
    /\ g_Mutex' = NoThread
    /\ pc' = [pc EXCEPT ![c] = "c_exit"]
    /\ UNCHANGED <<program, g_Data, g_DownloadFinished, g_CV, i,
                   value, config, closed, cstate, processed, out, vars9, vars5, vars8, vars1,
                   pushed, popped>>

\* line 72: "[Processor] All data processed, exiting.", and the return
ProcessDataExit(c) ==
    /\ pc[c] = "c_exit"
    /\ out' = Append(out, "[Processor] All data processed, exiting.")
    /\ pc' = [pc EXCEPT ![c] = "c_done"]
    /\ UNCHANGED <<program, g_Data, g_DownloadFinished, g_Mutex, g_CV, i,
                   value, config, closed, cstate, processed, vars9, vars5, vars8, vars1,
                   pushed, popped>>

ProcessData(c) ==
    \/ ProcessDataStart(c)
    \/ ProcessDataLock(c)
    \/ ProcessDataWait(c)
    \/ ProcessDataSuspend(c)
    \/ ProcessDataReacquire(c)
    \/ ProcessDataWhile(c)
    \/ ProcessDataPop(c)
    \/ ProcessDataUnlock(c)
    \/ ProcessDataPrint(c)
    \/ ProcessDataRelock(c)
    \/ ProcessDataExitTest(c)
    \/ ProcessDataIterEnd(c)
    \/ ProcessDataBreak(c)
    \/ ProcessDataExit(c)

\* A thread suspended in g_CV.wait may wake up without any notification.
SpuriousWakeup(c) ==
    /\ c \in g_CV
    /\ g_CV' = g_CV \ {c}
    /\ UNCHANGED <<program, g_Data, g_DownloadFinished, g_Mutex, pc, i,
                   value, config, closed, cstate, processed, out, vars9, vars5, vars8, vars1,
                   pushed, popped>>

Next10 ==
    \/ MainStep
    \/ Download
    \/ \E c \in AllConsumers : ProcessData(c)
    \/ \E c \in AllConsumers : SpuriousWakeup(c)

\* ------------------------------------------------------------------------
\* ex9: initial state

Idle10 ==
    /\ g_Data = <<>>
    /\ g_DownloadFinished = FALSE
    /\ g_Mutex = NoThread
    /\ g_CV = {}
    /\ pc = [t \in Threads |-> "off"]
    /\ i = 0
    /\ value = [c \in AllConsumers |-> <<>>]
    /\ consumers = {}
    /\ size = SIZE
    /\ closes = 1
    /\ closed = 0
    /\ cstate = [c \in AllConsumers |-> "WAITING"]
    /\ processed = <<>>
    /\ out = <<>>

Init9 ==
    /\ program = "ex9"
    /\ g_data = <<>>
    /\ mtx = "none"
    /\ cv = {}
    /\ pc9 = [t \in Threads9 |-> IF t = "main" THEN "M_spawnP" ELSE "off"]
    /\ i_P = 1
    /\ i_C = 1
    /\ item = <<>>
    /\ consumed = <<>>
    /\ out9 = <<>>
    /\ pushed = <<>>
    /\ popped = <<>>
    /\ Idle10
    /\ Idle5
    /\ Idle8
    /\ Idle1

\* ------------------------------------------------------------------------
\* ex9: main

\* line 56: std::thread t1(Producer); the for loop's first test is 1 <= SIZE
Main9SpawnProducer ==
    /\ pc9["main"] = "M_spawnP"
    /\ pc9' = [pc9 EXCEPT !["main"] = "M_spawnC",
                          !["t1"] = IF i_P <= SIZE9 THEN "P_lock" ELSE "P_done"]
    /\ UNCHANGED <<program, vars10, vars5, vars8, vars1, g_data, mtx, cv, i_P, i_C, item,
                   consumed, out9, pushed, popped>>

\* line 57: std::thread t2(Consumer)
Main9SpawnConsumer ==
    /\ pc9["main"] = "M_spawnC"
    /\ pc9' = [pc9 EXCEPT !["main"] = "M_joinP",
                          !["t2"] = IF i_C <= SIZE9 THEN "C_lock" ELSE "C_done"]
    /\ UNCHANGED <<program, vars10, vars5, vars8, vars1, g_data, mtx, cv, i_P, i_C, item,
                   consumed, out9, pushed, popped>>

\* line 59: t1.join()
Main9JoinProducer ==
    /\ pc9["main"] = "M_joinP"
    /\ pc9["t1"] = "P_done"
    /\ pc9' = [pc9 EXCEPT !["main"] = "M_joinC"]
    /\ UNCHANGED <<program, vars10, vars5, vars8, vars1, g_data, mtx, cv, i_P, i_C, item,
                   consumed, out9, pushed, popped>>

\* line 60: t2.join(); lines 62-63: the last line of output, and the return
Main9JoinConsumer ==
    /\ pc9["main"] = "M_joinC"
    /\ pc9["t2"] = "C_done"
    /\ pc9' = [pc9 EXCEPT !["main"] = "M_done"]
    /\ UNCHANGED <<program, vars10, vars5, vars8, vars1, g_data, mtx, cv, i_P, i_C, item,
                   consumed, out9, pushed, popped>>

Main9 ==
    \/ Main9SpawnProducer
    \/ Main9SpawnConsumer
    \/ Main9JoinProducer
    \/ Main9JoinConsumer

\* ------------------------------------------------------------------------
\* ex9: Producer

\* line 25: std::lock_guard<std::mutex> lg(mtx)
ProducerLock ==
    /\ pc9["t1"] = "P_lock"
    /\ MutexFree9(mtx)
    /\ mtx' = "t1"
    /\ pc9' = [pc9 EXCEPT !["t1"] = "P_push"]
    /\ UNCHANGED <<program, vars10, vars5, vars8, vars1, g_data, cv, i_P, i_C, item,
                   consumed, out9, pushed, popped>>

\* Mutant of ProducerPush: the mutex is released right after the push,
\* before the print statement.
ProducerPush_Unlock ==
    /\ pc9["t1"] = "P_push"
    /\ g_data' = PushBack(g_data, i_P)
    /\ pushed' = Append(pushed, i_P)
    /\ mtx' = "none"
    /\ pc9' = [pc9 EXCEPT !["t1"] = "P_print"]
    /\ UNCHANGED <<program, vars10, vars5, vars8, vars1, cv, i_P, i_C, item,
                   consumed, out9, popped>>

\* line 26: g_data.push(i)
ProducerPush ==
    /\ pc9["t1"] = "P_push"
    /\ g_data' = PushBack(g_data, i_P)
    /\ pushed' = Append(pushed, i_P)
    /\ pc9' = [pc9 EXCEPT !["t1"] = "P_print"]
    /\ UNCHANGED <<program, vars10, vars5, vars8, vars1, mtx, cv, i_P, i_C, item,
                   consumed, out9, popped>>

\* line 27: "[Producer] Produced: i", inside the lock_guard's scope
ProducerPrint ==
    /\ pc9["t1"] = "P_print"
    /\ out9' = Append(out9, <<"[Producer] Produced: ", i_P>>)
    /\ pc9' = [pc9 EXCEPT !["t1"] = "P_unlock"]
    /\ UNCHANGED <<program, vars10, vars5, vars8, vars1, g_data, mtx, cv, i_P, i_C, item,
                   consumed, pushed, popped>>

\* line 28: the lock_guard's scope ends
ProducerUnlock ==
    /\ pc9["t1"] = "P_unlock"
    /\ mtx' = "none"
    /\ pc9' = [pc9 EXCEPT !["t1"] = "P_notify"]
    /\ UNCHANGED <<program, vars10, vars5, vars8, vars1, g_data, cv, i_P, i_C, item,
                   consumed, out9, pushed, popped>>

\* line 29: cv.notify_one(); line 30 sleeps; then i++ and the loop test
ProducerNotify ==
    /\ pc9["t1"] = "P_notify"
    /\ cv' \in NotifyOne(cv)
    /\ i_P' = i_P + 1
    /\ pc9' = [pc9 EXCEPT !["t1"] = IF i_P + 1 <= SIZE9 THEN "P_lock" ELSE "P_done"]
    /\ UNCHANGED <<program, vars10, vars5, vars8, vars1, g_data, mtx, i_C, item,
                   consumed, out9, pushed, popped>>

Producer ==
    \/ ProducerLock
    \/ ProducerPush
    \/ ProducerPrint
    \/ ProducerUnlock
    \/ ProducerNotify

\* ------------------------------------------------------------------------
\* ex9: Consumer

\* Mutant of WaitPredicate9: the consumer waits for two queued items.
WaitPredicate9_Two == Len(g_data) >= 2

\* line 38: the predicate of cv.wait
WaitPredicate9 == g_data # <<>>

\* line 37: std::unique_lock<std::mutex> ul(mtx)
ConsumerLock ==
    /\ pc9["t2"] = "C_lock"
    /\ MutexFree9(mtx)
    /\ mtx' = "t2"
    /\ pc9' = [pc9 EXCEPT !["t2"] = "C_wait"]
    /\ UNCHANGED <<program, vars10, vars5, vars8, vars1, g_data, cv, i_P, i_C, item,
                   consumed, out9, pushed, popped>>

\* line 38: cv.wait(ul, pred) tests its predicate
ConsumerWait ==
    /\ pc9["t2"] = "C_wait"
    /\ pc9' = [pc9 EXCEPT !["t2"] = IF WaitPredicate9 THEN "C_front" ELSE "C_block"]
    /\ UNCHANGED <<program, vars10, vars5, vars8, vars1, g_data, mtx, cv, i_P, i_C, item,
                   consumed, out9, pushed, popped>>

\* line 38: the predicate was false: wait(ul) atomically releases the mutex
\* and suspends the thread.
ConsumerSuspend ==
    /\ pc9["t2"] = "C_block"
    /\ mtx' = "none"
    /\ cv' = cv \cup {"t2"}
    /\ pc9' = [pc9 EXCEPT !["t2"] = "C_blocked"]
    /\ UNCHANGED <<program, vars10, vars5, vars8, vars1, g_data, i_P, i_C, item,
                   consumed, out9, pushed, popped>>

\* line 38: a woken thread re-acquires the mutex and re-tests the predicate
ConsumerReacquire ==
    /\ pc9["t2"] = "C_blocked"
    /\ "t2" \notin cv
    /\ MutexFree9(mtx)
    /\ mtx' = "t2"
    /\ pc9' = [pc9 EXCEPT !["t2"] = "C_wait"]
    /\ UNCHANGED <<program, vars10, vars5, vars8, vars1, g_data, cv, i_P, i_C, item,
                   consumed, out9, pushed, popped>>

\* lines 47-48: int item = g_data.front(); g_data.pop()
ConsumerPop ==
    /\ pc9["t2"] = "C_front"
    /\ \E v \in FrontValues(g_data) :
        /\ item' = <<v>>
        /\ popped' = Append(popped, v)
    /\ g_data' = PopFront(g_data)
    /\ pc9' = [pc9 EXCEPT !["t2"] = "C_print"]
    /\ UNCHANGED <<program, vars10, vars5, vars8, vars1, mtx, cv, i_P, i_C, consumed, out9, pushed>>

\* line 49: "[Consumer] Consumed: item", with ul still locked
ConsumerPrint ==
    /\ pc9["t2"] = "C_print"
    /\ consumed' = Append(consumed, item[1])
    /\ out9' = Append(out9, <<"[Consumer] Consumed: ", item[1]>>)
    /\ pc9' = [pc9 EXCEPT !["t2"] = "C_unlock"]
    /\ UNCHANGED <<program, vars10, vars5, vars8, vars1, g_data, mtx, cv, i_P, i_C, item,
                   pushed, popped>>

\* line 50: the loop body ends: ul is destroyed (unlock), `item` goes out of
\* scope; then i++ and the loop test
ConsumerUnlock ==
    /\ pc9["t2"] = "C_unlock"
    /\ mtx' = "none"
    /\ item' = <<>>
    /\ i_C' = i_C + 1
    /\ pc9' = [pc9 EXCEPT !["t2"] = IF i_C + 1 <= SIZE9 THEN "C_lock" ELSE "C_done"]
    /\ UNCHANGED <<program, vars10, vars5, vars8, vars1, g_data, cv, i_P, consumed, out9, pushed, popped>>

Consumer ==
    \/ ConsumerLock
    \/ ConsumerWait
    \/ ConsumerSuspend
    \/ ConsumerReacquire
    \/ ConsumerPop
    \/ ConsumerPrint
    \/ ConsumerUnlock

\* A thread suspended in cv.wait may wake up without any notification.
SpuriousWakeup9 ==
    /\ "t2" \in cv
    /\ cv' = cv \ {"t2"}
    /\ UNCHANGED <<program, vars10, vars5, vars8, vars1, g_data, mtx, pc9, i_P, i_C, item,
                   consumed, out9, pushed, popped>>

Next9 ==
    \/ Main9
    \/ Producer
    \/ Consumer
    \/ SpuriousWakeup9

\* ------------------------------------------------------------------------
\* Specifications

\* Both programs as written (one producer, one consumer each).
Init == Init10 \/ Init9

Next == Next10 \/ Next9

Spec == Init /\ [][Next]_vars

\* Threads are scheduled fairly and a thread that keeps asking for a mutex
\* gets it; a spurious wake-up is never owed.
Fairness ==
    /\ WF_vars(MainStep)
    /\ SF_vars(Download)
    /\ \A c \in AllConsumers : SF_vars(ProcessData(c))
    /\ WF_vars(Main9)
    /\ SF_vars(Producer)
    /\ SF_vars(Consumer)

FairSpec == Spec /\ Fairness

\* ex10 with one to MaxConsumers threads running ProcessData.
InitMC ==
    /\ Init10Common
    /\ \E n \in 1..MaxConsumers : consumers = {ConsumerT(k) : k \in 1..n}
    /\ size \in 1..MaxItems
    /\ closes = 1
    /\ Idle9

SpecMC == InitMC /\ [][Next10]_vars

\* ex10 as written, but with Download running its shutdown step
\* 1..MaxCloses times.
InitClose ==
    /\ Init10Common
    /\ consumers = {ConsumerT(1)}
    /\ size = SIZE
    /\ closes \in 1..MaxCloses
    /\ Idle9

SpecClose == InitClose /\ [][Next10]_vars

FairSpecClose == SpecClose /\ Fairness

\* ------------------------------------------------------------------------
\* ex5: two workers push into one list under a mutex

Init5 ==
    /\ program = "ex5"
    /\ g_Data5 = <<>>
    /\ g_Mutex5 = "none"
    /\ pc5 = [t \in Threads5 |-> IF t = "main" THEN "M5_spawn1" ELSE "off"]
    /\ i5 = [t \in Workers5 |-> 0]
    /\ tail5 = [t \in Workers5 |-> <<>>]
    /\ out5 = <<>>
    /\ pushed = <<>>
    /\ popped = <<>>
    /\ Idle10
    /\ Idle9
    /\ Idle8
    /\ Idle1

\* Mutant of MutexFree5: lock() does not wait for the owner to unlock.
MutexFree5_NoWait(m) == TRUE

\* std::mutex::lock succeeds only on a mutex nobody owns.
MutexFree5(m) == m = "none"

\* line 53: std::thread thDownloader(Download); the loop's first test
Main5SpawnDownload ==
    /\ pc5["main"] = "M5_spawn1"
    /\ pc5' = [pc5 EXCEPT !["main"] = "M5_spawn2",
                          !["thDownloader"] = IF 0 < SIZE5 THEN "w_lock" ELSE "w_done"]
    /\ UNCHANGED <<program, vars10, vars9, vars8, vars1, g_Data5, g_Mutex5, i5, tail5, out5,
                   pushed, popped>>

\* line 54: std::thread thDownloader2(Download2); the loop's first test
Main5SpawnDownload2 ==
    /\ pc5["main"] = "M5_spawn2"
    /\ pc5' = [pc5 EXCEPT !["main"] = "M5_join1",
                          !["thDownloader2"] = IF 0 < SIZE5 THEN "w_lock" ELSE "w_done"]
    /\ UNCHANGED <<program, vars10, vars9, vars8, vars1, g_Data5, g_Mutex5, i5, tail5, out5,
                   pushed, popped>>

\* line 63: thDownloader.join()
Main5JoinDownload ==
    /\ pc5["main"] = "M5_join1"
    /\ pc5["thDownloader"] = "w_done"
    /\ pc5' = [pc5 EXCEPT !["main"] = "M5_join2"]
    /\ UNCHANGED <<program, vars10, vars9, vars8, vars1, g_Data5, g_Mutex5, i5, tail5, out5,
                   pushed, popped>>

\* line 69: thDownloader2.join()
Main5JoinDownload2 ==
    /\ pc5["main"] = "M5_join2"
    /\ pc5["thDownloader2"] = "w_done"
    /\ pc5' = [pc5 EXCEPT !["main"] = "M5_print"]
    /\ UNCHANGED <<program, vars10, vars9, vars8, vars1, g_Data5, g_Mutex5, i5, tail5, out5,
                   pushed, popped>>

\* lines 76-78: std::cout << g_Data.size(), and the return
Main5Print ==
    /\ pc5["main"] = "M5_print"
    /\ out5' = <<Len(g_Data5)>>
    /\ pc5' = [pc5 EXCEPT !["main"] = "M5_done"]
    /\ UNCHANGED <<program, vars10, vars9, vars8, vars1, g_Data5, g_Mutex5, i5, tail5,
                   pushed, popped>>

Main5 ==
    \/ Main5SpawnDownload
    \/ Main5SpawnDownload2
    \/ Main5JoinDownload
    \/ Main5JoinDownload2
    \/ Main5Print

\* lines 36 / 45: std::lock_guard<std::mutex> mtx(g_Mutex)
Download5Lock(t) ==
    /\ pc5[t] = "w_lock"
    /\ MutexFree5(g_Mutex5)
    /\ g_Mutex5' = t
    /\ pc5' = [pc5 EXCEPT ![t] = "w_read"]
    /\ UNCHANGED <<program, vars10, vars9, vars8, vars1, g_Data5, i5, tail5, out5,
                   pushed, popped>>

\* lines 37 / 46: g_Data.push_back(i) is not atomic: it first finds the
\* list's tail ...
Download5PushFind(t) ==
    /\ pc5[t] = "w_read"
    /\ tail5' = [tail5 EXCEPT ![t] = g_Data5]
    /\ pc5' = [pc5 EXCEPT ![t] = "w_link"]
    /\ UNCHANGED <<program, vars10, vars9, vars8, vars1, g_Data5, g_Mutex5, i5, out5,
                   pushed, popped>>

\* ... and then links the new node behind the tail it found.
Download5PushLink(t) ==
    /\ pc5[t] = "w_link"
    /\ g_Data5' = PushBack(tail5[t], i5[t])
    /\ tail5' = [tail5 EXCEPT ![t] = <<>>]
    /\ pc5' = [pc5 EXCEPT ![t] = "w_unlock"]
    /\ UNCHANGED <<program, vars10, vars9, vars8, vars1, g_Mutex5, i5, out5,
                   pushed, popped>>

\* Mutant of Download5Unlock: the mutex stays locked across iterations
\* (a manual lock() with the unlock() forgotten).
Download5Unlock_Keep(t) ==
    /\ pc5[t] = "w_unlock"
    /\ i5' = [i5 EXCEPT ![t] = i5[t] + 1]
    /\ pc5' = [pc5 EXCEPT ![t] = IF i5[t] + 1 < SIZE5 THEN "w_lock" ELSE "w_done"]
    /\ UNCHANGED <<program, vars10, vars9, vars8, vars1, g_Data5, g_Mutex5, tail5, out5,
                   pushed, popped>>

\* lines 38 / 47: the loop body ends, the lock_guard is destroyed; then ++i
\* and the loop test
Download5Unlock(t) ==
    /\ pc5[t] = "w_unlock"
    /\ g_Mutex5' = "none"
    /\ i5' = [i5 EXCEPT ![t] = i5[t] + 1]
    /\ pc5' = [pc5 EXCEPT ![t] = IF i5[t] + 1 < SIZE5 THEN "w_lock" ELSE "w_done"]
    /\ UNCHANGED <<program, vars10, vars9, vars8, vars1, g_Data5, tail5, out5,
                   pushed, popped>>

\* Download (thDownloader) and Download2 (thDownloader2) are the same code
Download5(t) ==
    \/ Download5Lock(t)
    \/ Download5PushFind(t)
    \/ Download5PushLink(t)
    \/ Download5Unlock(t)

Next5 ==
    \/ Main5
    \/ \E t \in Workers5 : Download5(t)

Spec5 == Init5 /\ [][Next5]_vars

\* ------------------------------------------------------------------------
\* ex8: main hands a count to the task through a promise

Init8 ==
    /\ program = "ex8"
    /\ data8 = EmptyState
    /\ f8 = "none"
    /\ result8 = "none"
    /\ ret8 = <<>>
    /\ pc8 = [t \in Threads8 |-> IF t = "main" THEN "M8_async" ELSE "off"]
    /\ count8 = 0
    /\ sum8 = 0
    /\ i8 = 0
    /\ sumMain8 = <<>>
    /\ out8 = <<>>
    /\ sets8 = [value |-> 0, exception |-> 0]
    /\ gets8 = [f |-> 0, result |-> 0]
    /\ pushed = <<>>
    /\ popped = <<>>
    /\ Idle10
    /\ Idle9
    /\ Idle5
    /\ Idle1

\* Mutant of FutureReady: get() returns without waiting for the shared
\* state.
FutureReady_Always(st) == TRUE

\* std::future::get waits until the shared state holds a value or an
\* exception.
FutureReady(st) == st.kind # "empty"

\* line 53: std::async(std::launch::async, Operation, std::ref(data))
Main8Async ==
    /\ pc8["main"] = "M8_async"
    /\ result8' = "valid"
    /\ pc8' = [pc8 EXCEPT !["main"] = "M8_sleep", !["task"] = "t_getfuture"]
    /\ UNCHANGED <<program, vars10, vars9, vars5, vars1, data8, f8, ret8, count8, sum8, i8,
                   sumMain8, out8, sets8, gets8, pushed, popped>>

\* line 56: sleep_for(1s); a delay, no synchronisation
Main8Sleep ==
    /\ pc8["main"] = "M8_sleep"
    /\ pc8' = [pc8 EXCEPT !["main"] = "M8_print"]
    /\ UNCHANGED <<program, vars10, vars9, vars5, vars1, data8, f8, result8, ret8, count8,
                   sum8, i8, sumMain8, out8, sets8, gets8, pushed, popped>>

\* line 57
Main8Print ==
    /\ pc8["main"] = "M8_print"
    /\ out8' = Append(out8, <<"[main] Setting the data in promise", 0>>)
    /\ pc8' = [pc8 EXCEPT !["main"] = "M8_set"]
    /\ UNCHANGED <<program, vars10, vars9, vars5, vars1, data8, f8, result8, ret8, count8,
                   sum8, i8, sumMain8, sets8, gets8, pushed, popped>>

\* Mutant of Main8SetValue: main goes on to result.get() with nothing stored
\* in the promise.
Main8SetValue_Skip ==
    /\ pc8["main"] = "M8_set"
    /\ pc8' = [pc8 EXCEPT !["main"] = "M8_valid"]
    /\ UNCHANGED <<program, vars10, vars9, vars5, vars1, data8, f8, result8, ret8, count8,
                   sum8, i8, sumMain8, out8, sets8, gets8, pushed, popped>>

\* Mutant of Main8SetValue: the call stores the value and throws all the
\* same.
Main8SetValue_ThrowAfterSet ==
    /\ pc8["main"] = "M8_set"
    /\ \E ok \in BOOLEAN :
         /\ data8' = [kind |-> "value", val |-> 10]
         /\ sets8' = [sets8 EXCEPT !.value = sets8.value + 1]
         /\ pc8' = [pc8 EXCEPT !["main"] = IF ok THEN "M8_valid" ELSE "M8_catch"]
    /\ UNCHANGED <<program, vars10, vars9, vars5, vars1, f8, result8, ret8, count8, sum8, i8,
                   sumMain8, out8, gets8, pushed, popped>>

\* line 62: data.set_value(10). The call either stores the value, or throws
\* (a satisfied promise, or an error of the library's synchronisation: the
\* case the catch block of line 70 is written for) and stores nothing.
Main8SetValue ==
    /\ pc8["main"] = "M8_set"
    /\ \E ok \in BOOLEAN :
         IF ok /\ data8.kind = "empty"
         THEN /\ data8' = [kind |-> "value", val |-> 10]
              /\ sets8' = [sets8 EXCEPT !.value = sets8.value + 1]
              /\ pc8' = [pc8 EXCEPT !["main"] = "M8_valid"]
         ELSE /\ pc8' = [pc8 EXCEPT !["main"] = "M8_catch"]
              /\ UNCHANGED <<data8, sets8>>
    /\ UNCHANGED <<program, vars10, vars9, vars5, vars1, f8, result8, ret8, count8, sum8, i8,
                   sumMain8, out8, gets8, pushed, popped>>

\* line 65: if (result.valid())
Main8Valid ==
    /\ pc8["main"] = "M8_valid"
    /\ pc8' = [pc8 EXCEPT !["main"] = IF result8 = "valid" THEN "M8_get" ELSE "M8_return"]
    /\ UNCHANGED <<program, vars10, vars9, vars5, vars1, data8, f8, result8, ret8, count8,
                   sum8, i8, sumMain8, out8, sets8, gets8, pushed, popped>>

\* line 66: auto sum = result.get(); waits until Operation has returned
Main8Get ==
    /\ pc8["main"] = "M8_get"
    /\ ret8 # <<>>
    /\ sumMain8' = ret8
    /\ result8' = "retrieved"
    /\ gets8' = [gets8 EXCEPT !.result = gets8.result + 1]
    /\ pc8' = [pc8 EXCEPT !["main"] = "M8_printSum"]
    /\ UNCHANGED <<program, vars10, vars9, vars5, vars1, data8, f8, ret8, count8, sum8, i8,
                   out8, sets8, pushed, popped>>

\* line 67
Main8PrintSum ==
    /\ pc8["main"] = "M8_printSum"
    /\ out8' = Append(out8, <<"[main] Sum computed by task = ", sumMain8[1]>>)
    /\ pc8' = [pc8 EXCEPT !["main"] = "M8_return"]
    /\ UNCHANGED <<program, vars10, vars9, vars5, vars1, data8, f8, result8, ret8, count8,
                   sum8, i8, sumMain8, sets8, gets8, pushed, popped>>

\* lines 70-73: data.set_exception(std::make_exception_ptr(ex)). On a
\* satisfied promise the call throws std::future_error out of the handler,
\* nothing catches it, and std::terminate ends the process.
Main8SetException ==
    /\ pc8["main"] = "M8_catch"
    /\ IF data8.kind = "empty"
       THEN /\ data8' = [kind |-> "exception", val |-> 0]
            /\ sets8' = [sets8 EXCEPT !.exception = sets8.exception + 1]
            /\ pc8' = [pc8 EXCEPT !["main"] = "M8_return"]
       ELSE /\ pc8' = [t \in Threads8 |-> "terminated"]
            /\ UNCHANGED <<data8, sets8>>
    /\ UNCHANGED <<program, vars10, vars9, vars5, vars1, f8, result8, ret8, count8, sum8, i8,
                   sumMain8, out8, gets8, pushed, popped>>

\* line 75: return 0. The destructor of a future that std::async returned,
\* and that still refers to its shared state, waits for the task.
Main8Return ==
    /\ pc8["main"] = "M8_return"
    /\ result8 = "valid" => ret8 # <<>>
    /\ pc8' = [pc8 EXCEPT !["main"] = "M8_done"]
    /\ UNCHANGED <<program, vars10, vars9, vars5, vars1, data8, f8, result8, ret8, count8,
                   sum8, i8, sumMain8, out8, sets8, gets8, pushed, popped>>

Main8 ==
    \/ Main8Async
    \/ Main8Sleep
    \/ Main8Print
    \/ Main8SetValue
    \/ Main8Valid
    \/ Main8Get
    \/ Main8PrintSum
    \/ Main8SetException
    \/ Main8Return

\* line 18: auto f = data.get_future()
OperationGetFuture ==
    /\ pc8["task"] = "t_getfuture"
    /\ f8' = "valid"
    /\ pc8' = [pc8 EXCEPT !["task"] = "t_waiting"]
    /\ UNCHANGED <<program, vars10, vars9, vars5, vars1, data8, result8, ret8, count8, sum8,
                   i8, sumMain8, out8, sets8, gets8, pushed, popped>>

\* line 21
OperationPrintWaiting ==
    /\ pc8["task"] = "t_waiting"
    /\ out8' = Append(out8, <<"[Task] Waiting for count", 0>>)
    /\ pc8' = [pc8 EXCEPT !["task"] = "t_get"]
    /\ UNCHANGED <<program, vars10, vars9, vars5, vars1, data8, f8, result8, ret8, count8,
                   sum8, i8, sumMain8, sets8, gets8, pushed, popped>>

\* Mutant of OperationGet: a stored exception is not rethrown, get()
\* returns a value-initialised int.
OperationGet_NoRethrow ==
    /\ pc8["task"] = "t_get"
    /\ FutureReady(data8)
    /\ f8' = "retrieved"
    /\ gets8' = [gets8 EXCEPT !.f = gets8.f + 1]
    /\ count8' = data8.val
    /\ pc8' = [pc8 EXCEPT !["task"] = "t_acquired"]
    /\ UNCHANGED <<program, vars10, vars9, vars5, vars1, data8, result8, ret8, sum8, i8,
                   sumMain8, out8, sets8, pushed, popped>>

\* line 24: auto count = f.get(); returns the stored value, or rethrows the
\* stored exception, which the handler of line 36 catches
OperationGet ==
    /\ pc8["task"] = "t_get"
    /\ FutureReady(data8)
    /\ f8' = "retrieved"
    /\ gets8' = [gets8 EXCEPT !.f = gets8.f + 1]
    /\ IF data8.kind = "exception"
       THEN /\ pc8' = [pc8 EXCEPT !["task"] = "t_catch"]
            /\ UNCHANGED count8
       ELSE /\ count8' = data8.val
            /\ pc8' = [pc8 EXCEPT !["task"] = "t_acquired"]
    /\ UNCHANGED <<program, vars10, vars9, vars5, vars1, data8, result8, ret8, sum8, i8,
                   sumMain8, out8, sets8, pushed, popped>>

\* lines 25-29: the print, int sum{}, and the loop's int i = 0
OperationPrintAcquired ==
    /\ pc8["task"] = "t_acquired"
    /\ out8' = Append(out8, <<"[Task] Count acquired: ", count8>>)
    /\ sum8' = 0
    /\ i8' = 0
    /\ pc8' = [pc8 EXCEPT !["task"] = "t_test"]
    /\ UNCHANGED <<program, vars10, vars9, vars5, vars1, data8, f8, result8, ret8, count8,
                   sumMain8, sets8, gets8, pushed, popped>>

\* Mutant of OperationLoopTest: the loop runs while i <= count.
OperationLoopTest_Inclusive ==
    /\ pc8["task"] = "t_test"
    /\ pc8' = [pc8 EXCEPT !["task"] = IF i8 <= count8 THEN "t_add" ELSE "t_return"]
    /\ UNCHANGED <<program, vars10, vars9, vars5, vars1, data8, f8, result8, ret8, count8,
                   sum8, i8, sumMain8, out8, sets8, gets8, pushed, popped>>

\* line 29: i < count
OperationLoopTest ==
    /\ pc8["task"] = "t_test"
    /\ pc8' = [pc8 EXCEPT !["task"] = IF i8 < count8 THEN "t_add" ELSE "t_return"]
    /\ UNCHANGED <<program, vars10, vars9, vars5, vars1, data8, f8, result8, ret8, count8,
                   sum8, i8, sumMain8, out8, sets8, gets8, pushed, popped>>

\* line 30: sum += i
OperationAdd ==
    /\ pc8["task"] = "t_add"
    /\ sum8' = sum8 + i8
    /\ pc8' = [pc8 EXCEPT !["task"] = "t_dot"]
    /\ UNCHANGED <<program, vars10, vars9, vars5, vars1, data8, f8, result8, ret8, count8,
                   i8, sumMain8, out8, sets8, gets8, pushed, popped>>

\* line 31: std::cout << '.'
OperationDot ==
    /\ pc8["task"] = "t_dot"
    /\ out8' = Append(out8, <<".", 0>>)
    /\ pc8' = [pc8 EXCEPT !["task"] = "t_sleep"]
    /\ UNCHANGED <<program, vars10, vars9, vars5, vars1, data8, f8, result8, ret8, count8,
                   sum8, i8, sumMain8, sets8, gets8, pushed, popped>>

\* lines 32 and 29: sleep_for(300ms), then ++i
OperationSleep ==
    /\ pc8["task"] = "t_sleep"
    /\ i8' = i8 + 1
    /\ pc8' = [pc8 EXCEPT !["task"] = "t_test"]
    /\ UNCHANGED <<program, vars10, vars9, vars5, vars1, data8, f8, result8, ret8, count8,
                   sum8, sumMain8, out8, sets8, gets8, pushed, popped>>

\* line 34: return sum; the value makes the shared state of result ready
OperationReturn ==
    /\ pc8["task"] = "t_return"
    /\ ret8' = <<sum8>>
    /\ pc8' = [pc8 EXCEPT !["task"] = "t_done"]
    /\ UNCHANGED <<program, vars10, vars9, vars5, vars1, data8, f8, result8, count8, sum8,
                   i8, sumMain8, out8, sets8, gets8, pushed, popped>>

\* lines 36-38: catch (std::exception &ex), and the print
OperationCatch ==
    /\ pc8["task"] = "t_catch"
    /\ out8' = Append(out8, <<"[Task] Exception: ", 0>>)
    /\ pc8' = [pc8 EXCEPT !["task"] = "t_returnError"]
    /\ UNCHANGED <<program, vars10, vars9, vars5, vars1, data8, f8, result8, ret8, count8,
                   sum8, i8, sumMain8, sets8, gets8, pushed, popped>>

\* line 39: return -1
OperationReturnError ==
    /\ pc8["task"] = "t_returnError"
    /\ ret8' = <<-1>>
    /\ pc8' = [pc8 EXCEPT !["task"] = "t_done"]
    /\ UNCHANGED <<program, vars10, vars9, vars5, vars1, data8, f8, result8, count8, sum8,
                   i8, sumMain8, out8, sets8, gets8, pushed, popped>>

Operation ==
    \/ OperationGetFuture
    \/ OperationPrintWaiting
    \/ OperationGet
    \/ OperationPrintAcquired
    \/ OperationLoopTest
    \/ OperationAdd
    \/ OperationDot
    \/ OperationSleep
    \/ OperationReturn
    \/ OperationCatch
    \/ OperationReturnError

Next8 ==
    \/ Main8
    \/ Operation

Spec8 == Init8 /\ [][Next8]_vars

\* main and the task are threads of their own: each one that can take a step
\* eventually takes it.
Fairness8 ==
    /\ WF_vars(Main8)
    /\ WF_vars(Operation)

FairSpec8 == Spec8 /\ Fairness8

\* ------------------------------------------------------------------------
\* ex1: main starts a Download thread and neither joins nor detaches it

Init1 ==
    /\ program = "ex1"
    /\ g_Data1 = <<>>
    /\ pc1 = [t \in Threads1 |-> IF t = "main" THEN "M1_print" ELSE "off"]
    /\ i1 = 0
    /\ joinable1 = FALSE
    /\ exit1 = "running"
    /\ out1 = <<>>
    /\ pushed = <<>>
    /\ popped = <<>>
    /\ Idle10
    /\ Idle9
    /\ Idle5
    /\ Idle8

\* line 30
Main1Print ==
    /\ exit1 = "running"
    /\ pc1["main"] = "M1_print"
    /\ out1' = Append(out1, "[main] User started an operation")
    /\ pc1' = [pc1 EXCEPT !["main"] = "M1_thread"]
    /\ UNCHANGED <<program, vars10, vars9, vars5, vars8, g_Data1, i1, joinable1, exit1,
                   pushed, popped>>

\* line 33: std::thread threadObj(Download)
Main1Thread ==
    /\ exit1 = "running"
    /\ pc1["main"] = "M1_thread"
    /\ joinable1' = TRUE
    /\ pc1' = [pc1 EXCEPT !["main"] = "M1_another", !["threadObj"] = "d_started"]
    /\ UNCHANGED <<program, vars10, vars9, vars5, vars8, g_Data1, i1, exit1, out1,
                   pushed, popped>>

\* Mutant of Main1PrintAnother: option 1 of the source (line 41,
\* threadObj.detach()) is not commented out.
Main1PrintAnother_Detach ==
    /\ exit1 = "running"
    /\ pc1["main"] = "M1_another"
    /\ out1' = Append(out1, "[main] User started another operation")
    /\ joinable1' = FALSE
    /\ pc1' = [pc1 EXCEPT !["main"] = "M1_weAreDone"]
    /\ UNCHANGED <<program, vars10, vars9, vars5, vars8, g_Data1, i1, exit1,
                   pushed, popped>>

\* line 38; lines 40-53 (detach, join) are comments
Main1PrintAnother ==
    /\ exit1 = "running"
    /\ pc1["main"] = "M1_another"
    /\ out1' = Append(out1, "[main] User started another operation")
    /\ pc1' = [pc1 EXCEPT !["main"] = "M1_weAreDone"]
    /\ UNCHANGED <<program, vars10, vars9, vars5, vars8, g_Data1, i1, joinable1, exit1,
                   pushed, popped>>

\* line 55
Main1PrintDone ==
    /\ exit1 = "running"
    /\ pc1["main"] = "M1_weAreDone"
    /\ out1' = Append(out1, "we are done")
    /\ pc1' = [pc1 EXCEPT !["main"] = "M1_return"]
    /\ UNCHANGED <<program, vars10, vars9, vars5, vars8, g_Data1, i1, joinable1, exit1,
                   pushed, popped>>

\* lines 61-62: return 0 destroys threadObj; the destructor of a joinable
\* std::thread calls std::terminate, which ends the process and every
\* thread of it. A normal return from main ends the process as well.
Main1Return ==
    /\ exit1 = "running"
    /\ pc1["main"] = "M1_return"
    /\ exit1' = IF joinable1 THEN "terminate" ELSE "normal"
    /\ pc1' = [pc1 EXCEPT !["main"] = "M1_done"]
    /\ UNCHANGED <<program, vars10, vars9, vars5, vars8, g_Data1, i1, joinable1, out1,
                   pushed, popped>>

Main1 ==
    \/ Main1Print
    \/ Main1Thread
    \/ Main1PrintAnother
    \/ Main1PrintDone
    \/ Main1Return

\* line 22, and the loop's int i = 0
Download1Started ==
    /\ exit1 = "running"
    /\ pc1["threadObj"] = "d_started"
    /\ out1' = Append(out1, "[Downloader] Started download of file")
    /\ i1' = 0
    /\ pc1' = [pc1 EXCEPT !["threadObj"] = "d_test"]
    /\ UNCHANGED <<program, vars10, vars9, vars5, vars8, g_Data1, joinable1, exit1,
                   pushed, popped>>

\* line 23: i < SIZE
Download1Test ==
    /\ exit1 = "running"
    /\ pc1["threadObj"] = "d_test"
    /\ pc1' = [pc1 EXCEPT !["threadObj"] = IF i1 < SIZE1 THEN "d_push" ELSE "d_finished"]
    /\ UNCHANGED <<program, vars10, vars9, vars5, vars8, g_Data1, i1, joinable1, exit1, out1,
                   pushed, popped>>

\* lines 24 and 23: g_Data.push_back(i), then ++i
Download1Push ==
    /\ exit1 = "running"
    /\ pc1["threadObj"] = "d_push"
    /\ g_Data1' = PushBack(g_Data1, i1)
    /\ i1' = i1 + 1
    /\ pc1' = [pc1 EXCEPT !["threadObj"] = "d_test"]
    /\ UNCHANGED <<program, vars10, vars9, vars5, vars8, joinable1, exit1, out1,
                   pushed, popped>>

\* lines 26-27: the print, and the return that ends the thread
Download1Finished ==
    /\ exit1 = "running"
    /\ pc1["threadObj"] = "d_finished"
    /\ out1' = Append(out1, "[Downloader] Finished download")
    /\ pc1' = [pc1 EXCEPT !["threadObj"] = "d_done"]
    /\ UNCHANGED <<program, vars10, vars9, vars5, vars8, g_Data1, i1, joinable1, exit1,
                   pushed, popped>>

Download1 ==
    \/ Download1Started
    \/ Download1Test
    \/ Download1Push
    \/ Download1Finished

Next1 ==
    \/ Main1
    \/ Download1

Spec1 == Init1 /\ [][Next1]_vars

\* main and Download run on threads of their own: each takes the steps it
\* can take.
FairSpec1 == Spec1 /\ WF_vars(Main1) /\ WF_vars(Download1)

\* ------------------------------------------------------------------------
\* Properties

TheConsumer == ConsumerT(1)

\* C1: FIFO delivery. In both programs the sequence of values removed from
\* the queue so far is a prefix of the sequence of values pushed so far:
\* nothing is skipped, duplicated or reordered.
C1_FifoDelivery == IsPrefix(popped, pushed)

\* Some items have been delivered while two more were queued behind them.
C1_Witness == Len(popped) >= 2 /\ Len(g_Data) >= 2

\* C2: consumer termination (one producer, one consumer, fair scheduling).
\* Once g_DownloadFinished is set, the consumer eventually leaves its loop
\* and returns.
C2_ConsumerTerminates == g_DownloadFinished ~> (pc[TheConsumer] = "c_done")

\* The consumer has returned after the flag was set and every item printed.
C2_Witness ==
    /\ pc[TheConsumer] = "c_done"
    /\ g_DownloadFinished
    /\ Len(processed) = SIZE

\* C3: drain before exit. A consumer that has left the loop of ProcessData
\* did so with g_DownloadFinished true and g_Data empty, and by then every
\* value 0..SIZE-1 has been processed, in that order.
C3_DrainBeforeExit ==
    \A c \in consumers :
        pc[c] \in {"c_break", "c_exit", "c_done"} =>
            /\ g_DownloadFinished
            /\ g_Data = <<>>
            /\ processed = [k \in 1..SIZE |-> k - 1]

\* The consumer has just taken the break of line 68.
C3_Witness == pc[TheConsumer] = "c_break" /\ Len(pushed) = SIZE

\* C4: blocking on empty, no spurious return. A consumer that is past the
\* wait found the queue non-empty or (ProcessData) the flag set; front()/pop
\* never run on an empty container; nothing is removed that was not pushed.
C4_BlocksOnEmpty ==
    /\ \A c \in consumers :
        /\ (pc[c] = "c_while" /\ cstate[c] = "WAITING") =>
               (g_Data # <<>> \/ g_DownloadFinished)
        /\ pc[c] = "c_front" => g_Data # <<>>
    /\ pc9["t2"] = "C_front" => g_data # <<>>
    /\ Len(popped) <= Len(pushed)

\* The consumer has been woken inside the wait before anything was pushed
\* (a spurious wake-up) and the flag is not set.
C4_Witness ==
    /\ pc[TheConsumer] = "c_blocked"
    /\ TheConsumer \notin g_CV
    /\ pushed = <<>>
    /\ ~g_DownloadFinished

\* C5 as claimed: for any number of consumers, once the producer has set
\* g_DownloadFinished and signalled, every suspended consumer has been woken:
\* none is left in the wait.
C5_AllConsumersWoken == pc[ProducerT] = "p_done" => g_CV = {}

\* C5 (amended): the producer's notify_one after setting the flag wakes one
\* suspended consumer. Once the producer has signalled, at least one of the
\* consumers is not suspended: none with a single consumer, up to all but
\* one of them with several.
C5_OneConsumerWoken ==
    pc[ProducerT] \in {"p_finish", "p_done"} =>
        Cardinality(g_CV) <= Cardinality(consumers) - 1

\* Two consumers, the producer has returned; one consumer was woken and has
\* returned, the other one is still suspended.
C5_Witness ==
    /\ Cardinality(consumers) >= 2
    /\ pc[ProducerT] = "p_done"
    /\ \E c \in consumers : pc[c] = "c_done"
    /\ \E c \in consumers : c \in g_CV

\* C6 as claimed: no thread prints a pushed or consumed item while it holds
\* the lock.
C6_NoPrintUnderLock ==
    /\ pc[ProducerT] = "p_print" => g_Mutex # ProducerT
    /\ \A c \in consumers : pc[c] = "c_print" => g_Mutex # c
    /\ pc9["t1"] = "P_print" => mtx # "t1"
    /\ pc9["t2"] = "C_print" => mtx # "t2"

\* C6 (amended): only ProcessData releases the lock before the user-visible
\* work: it prints a processed item without holding g_Mutex. Download prints
\* the pushed item, and Producer and Consumer of ex9 print their item, while
\* holding the lock.
C6_OnlyProcessDataPrintsUnlocked ==
    /\ \A c \in consumers : pc[c] = "c_print" => g_Mutex # c
    /\ pc[ProducerT] = "p_print" => g_Mutex = ProducerT
    /\ pc9["t1"] = "P_print" => mtx = "t1"
    /\ pc9["t2"] = "C_print" => mtx = "t2"

\* The consumer is printing an item while the producer holds the lock.
C6_Witness == pc[TheConsumer] = "c_print" /\ g_Mutex = ProducerT

\* The positions of ex10 at which the next statement reads or writes g_Data
\* or g_DownloadFinished (push_back; the flag assignment; the wait
\* predicate; empty; front and pop_front; the exit test).
SharedAccessLabels == {"p_push", "p_setF", "c_wait", "c_while", "c_front", "c_if"}

\* The positions of ex10 between a lock and the matching unlock.
HoldingLabels ==
    {"p_push", "p_print", "p_unlock", "p_setF", "p_unlockF",
     "c_wait", "c_block", "c_while", "c_front", "c_unlock", "c_if",
     "c_iterEnd", "c_break"}

\* C7: every read and write of g_Data and g_DownloadFinished in ex10 is done
\* by the thread that holds g_Mutex, and at most one thread is between a
\* lock and its unlock at any time.
C7_SharedStateUnderLock ==
    /\ \A t \in Threads : pc[t] \in SharedAccessLabels => g_Mutex = t
    /\ \A t \in Threads : pc[t] \in HoldingLabels <=> g_Mutex = t
    /\ Cardinality({t \in Threads : pc[t] \in HoldingLabels}) <= 1

\* The consumer is about to take an item while the producer is waiting for
\* the lock.
C7_Witness == pc[TheConsumer] = "c_front" /\ pc[ProducerT] = "p_lock"

\* The step in which consumer c takes an item off the list.
Delivers(c) == pc[c] = "c_front" /\ pc'[c] = "c_unlock"

\* C8 as claimed: the consumer only moves WAITING -> DELIVERING -> WAITING
\* and WAITING -> DONE, and it takes an item only coming from the wait.
C8_StateMachineAsClaimed ==
    [][\A c \in AllConsumers :
        /\ cstate[c] # cstate'[c] =>
              <<cstate[c], cstate'[c]>> \in
                  {<<"WAITING", "DELIVERING">>, <<"DELIVERING", "WAITING">>,
                   <<"WAITING", "DONE">>}
        /\ Delivers(c) => cstate[c] = "WAITING"]_vars

\* C8 (amended): the consumer moves WAITING -> DELIVERING, DELIVERING ->
\* WAITING, WAITING -> DONE and also DELIVERING -> DONE (the exit test right
\* after the drain loop); in DELIVERING it may take further items without
\* going back to the wait (the drain loop); it enters DONE only observing
\* the flag set and the list empty; DONE is terminal.
C8_StateMachine ==
    [][\A c \in AllConsumers :
        /\ cstate[c] # cstate'[c] =>
              <<cstate[c], cstate'[c]>> \in
                  {<<"WAITING", "DELIVERING">>, <<"DELIVERING", "WAITING">>,
                   <<"WAITING", "DONE">>, <<"DELIVERING", "DONE">>}
        /\ Delivers(c) => cstate[c] \in {"WAITING", "DELIVERING"}
        /\ (cstate[c] # "DONE" /\ cstate'[c] = "DONE") =>
              (g_DownloadFinished /\ g_Data = <<>>)]_vars

\* The consumer, still delivering, is about to take a second item without
\* having gone back to the wait.
C8_Witness == pc[TheConsumer] = "c_front" /\ cstate[TheConsumer] = "DELIVERING"

\* The queue is shut down and drained.
Closed == g_DownloadFinished /\ g_Data = <<>>

\* C9: non-blocking pop after shutdown. Once the flag is set and the list is
\* empty this stays so, and from then on a consumer at the wait passes it at
\* once (it does not suspend), takes no item, and leaves the loop through
\* the exit test; no item is removed any more.
C9_NoBlockAfterShutdown ==
    [][Closed =>
        /\ Closed'
        /\ popped' = popped
        /\ \A c \in AllConsumers :
            /\ pc[c] = "c_wait" => pc'[c] \in {"c_wait", "c_while"}
            /\ pc[c] = "c_while" => pc'[c] \in {"c_while", "c_if"}
            /\ pc[c] = "c_if" => pc'[c] \in {"c_if", "c_break"}
            /\ c \notin g_CV => c \notin g_CV']_vars

\* A consumer came to the wait with the queue shut down and drained, and has
\* passed it.
C9_Witness ==
    \E c \in consumers :
        /\ Closed
        /\ pc[c] = "c_while"
        /\ cstate[c] = "WAITING"

\* C10: no lost wake-up (one consumer). Whenever the consumer is suspended
\* in the wait although an item is queued or the flag is set, the producer
\* is between that change and its notify_one, so the wake-up is still to
\* come; and under fair scheduling the consumer then returns from the wait.
C10_NoLostWakeup ==
    /\ [](/\ (TheConsumer \in g_CV /\ WaitPredicate) =>
                pc[ProducerT] \in {"p_print", "p_unlock", "p_notify",
                                   "p_unlockF", "p_notifyF"}
          /\ ("t2" \in cv /\ WaitPredicate9) =>
                pc9["t1"] \in {"P_print", "P_unlock", "P_notify"})
    /\ (TheConsumer \in g_CV /\ WaitPredicate) ~> (pc[TheConsumer] = "c_while")
    /\ ("t2" \in cv /\ WaitPredicate9) ~> (pc9["t2"] = "C_front")

\* The consumer is suspended in the wait and an item has just been pushed.
C10_Witness == TheConsumer \in g_CV /\ g_Data # <<>>

\* C11: the shutdown flag is monotonic. g_DownloadFinished starts false and
\* no step takes it from true back to false.
C11_FlagMonotonic ==
    /\ ~g_DownloadFinished
    /\ [][g_DownloadFinished => g_DownloadFinished']_vars

\* The whole program has ended and the flag is still set.
C11_Witness == g_DownloadFinished /\ pc[MainT] = "m_done"

\* C12: the producer never blocks on the queue. Download is never suspended
\* in the condition variable; whenever it has not returned and no other
\* thread owns g_Mutex it can take its next step, whatever the consumer has
\* or has not removed; the list never holds more than SIZE items; and under
\* fair scheduling Download, once started, returns.
C12_ProducerNeverBlocks ==
    /\ [](/\ ProducerT \notin g_CV
          /\ Len(g_Data) <= size
          /\ (/\ pc[ProducerT] \notin {"off", "p_done"}
              /\ g_Mutex \in {NoThread, ProducerT}) => ENABLED Download)
    /\ (pc[ProducerT] = "p_start") ~> (pc[ProducerT] = "p_done")

\* The producer has pushed all SIZE items and set the flag while the
\* consumer has removed nothing.
C12_Witness ==
    /\ Len(g_Data) = SIZE
    /\ popped = <<>>
    /\ g_DownloadFinished

\* The values Download pushes, in order: 0, 1, .., SIZE-1.
DownloadedItems == [k \in 1..SIZE |-> k - 1]

C17_BothTerminate ==
    /\ [](/\ program = "ex9" => Len(popped) <= SIZE9
          /\ (program = "ex9" /\ pc9["t2"] # "off") =>
                Len(popped) = (i_C - 1) + (IF pc9["t2"] \in {"C_print", "C_unlock"} THEN 1 ELSE 0)
          /\ (pc9["t1"] = "P_done" /\ pc9["t2"] = "C_done") =>
                (Len(popped) = SIZE9 /\ g_data = <<>>))
    /\ (program = "ex9") ~> (pc9["t1"] = "P_done" /\ pc9["t2"] = "C_done")

\* Both threads of ex9 have returned and main has joined them.
C17_Witness ==
    /\ pc9["main"] = "M_done"
    /\ pc9["t1"] = "P_done"
    /\ pc9["t2"] = "C_done"

\* C13: close() is idempotent. Whether Download runs its shutdown step once
\* or several times: the flag, once set, stays set; a repeated shutdown step
\* changes neither the flag nor the list; the consumer is delivered the same
\* items in the same order (0..SIZE-1), has them all when it leaves, and
\* under fair scheduling it does leave and the program ends.
C13_CloseIdempotent ==
    /\ [][/\ g_DownloadFinished => g_DownloadFinished'
          /\ (closed >= 1 /\ pc'[ProducerT] # pc[ProducerT]) =>
                (g_DownloadFinished' = g_DownloadFinished /\ g_Data' = g_Data)]_vars
    /\ [](/\ closed >= 1 => g_DownloadFinished
          /\ IsPrefix(processed, DownloadedItems)
          /\ pc[TheConsumer] \in {"c_break", "c_exit", "c_done"} =>
                (processed = DownloadedItems /\ g_DownloadFinished /\ g_Data = <<>>))
    /\ <>(pc[TheConsumer] = "c_done" /\ pc[MainT] = "m_done")

\* The shutdown step has been run twice and the consumer has returned with
\* all the items.
C13_Witness ==
    /\ closed = 2
    /\ pc[TheConsumer] = "c_done"
    /\ processed = DownloadedItems

\* The positions of an ex5 worker between the lock and the unlock.
Critical5 == {"w_read", "w_link", "w_unlock"}

\* The number of push_back calls a worker has completed.
Pushes5(t) == i5[t] + (IF pc5[t] = "w_unlock" THEN 1 ELSE 0)

\* C15: no push_back is lost in ex5. The list holds exactly as many elements
\* as push_back calls have completed, so after both joins it holds 2*SIZE of
\* them, and that is the number main prints.
C15_NoLostPush ==
    /\ Len(g_Data5) = Pushes5("thDownloader") + Pushes5("thDownloader2")
    /\ pc5["main"] \in {"M5_print", "M5_done"} => Len(g_Data5) = 2 * SIZE5
    /\ pc5["main"] = "M5_done" => out5 = <<2 * SIZE5>>

\* main has printed 2*SIZE after a run in which the two workers' first
\* pushes were interleaved.
C15_Witness ==
    /\ out5 = <<2 * SIZE5>>
    /\ g_Data5[1] = 0
    /\ g_Data5[2] = 0

\* C16: mutual exclusion in ex5. At most one worker is inside the locked
\* section, and it is the owner of the mutex; a worker that finds the mutex
\* held cannot proceed; a worker between iterations (or finished) does not
\* hold the mutex.
C16_MutualExclusion ==
    /\ Cardinality({t \in Workers5 : pc5[t] \in Critical5}) <= 1
    /\ \A t \in Workers5 :
        /\ pc5[t] \in Critical5 <=> g_Mutex5 = t
        /\ (pc5[t] = "w_lock" /\ g_Mutex5 # "none") => ~ENABLED Download5(t)
        /\ pc5[t] \in {"w_lock", "w_done"} => g_Mutex5 # t

\* One worker is inside push_back while the other one, which has already
\* completed an iteration, waits for the mutex.
C16_Witness ==
    /\ pc5["thDownloader"] = "w_link"
    /\ pc5["thDownloader2"] = "w_lock"
    /\ i5["thDownloader2"] >= 1

\* The positions of the task after f.get() has returned a value.
AfterGetValue8 == {"t_acquired", "t_test", "t_add", "t_dot", "t_sleep", "t_return"}

\* The positions of the task after f.get() has rethrown.
AfterGetError8 == {"t_catch", "t_returnError"}

\* What the task has printed of a kind
Printed8(text) == {k \in 1..Len(out8) : out8[k][1] = text}

\* C18: the task of ex8 blocks in f.get() until the promise is completed.
\* While the promise holds neither a value nor an exception the task cannot
\* take a step from f.get(), and has neither left it, nor printed 'Count
\* acquired', nor summed; once it is past f.get() with a count, main has
\* executed set_value and the count is the value main set.
C18_BlocksUntilSet ==
    /\ (pc8["task"] = "t_get" /\ data8.kind = "empty") => ~ENABLED Operation
    /\ data8.kind = "empty" =>
          /\ pc8["task"] \in {"off", "t_getfuture", "t_waiting", "t_get"}
          /\ Printed8("[Task] Count acquired: ") = {}
          /\ Printed8(".") = {}
          /\ gets8.f = 0
    /\ (pc8["task"] \in AfterGetValue8 \/ Printed8("[Task] Count acquired: ") # {}) =>
          /\ data8 = [kind |-> "value", val |-> 10]
          /\ sets8.value = 1
          /\ pc8["main"] \notin {"M8_async", "M8_sleep", "M8_print", "M8_set"}
          /\ count8 = 10

\* The task has the count and is summing, after it had announced its wait
\* before main announced the set_value.
C18_Witness ==
    /\ pc8["task"] = "t_add"
    /\ count8 = 10
    /\ Len(out8) >= 3
    /\ out8[1] = <<"[Task] Waiting for count", 0>>
    /\ out8[2] = <<"[main] Setting the data in promise", 0>>

\* C19: an exception stored in the promise reaches the task. f.get()
\* rethrows it into the handler, the task prints '[Task] Exception', never
\* prints 'Count acquired' nor a progress dot, never sums, and returns -1,
\* which is the value the shared state of result then holds.
C19_ExceptionPropagates ==
    data8.kind = "exception" =>
        /\ pc8["task"] \notin AfterGetValue8
        /\ Printed8("[Task] Count acquired: ") = {}
        /\ Printed8(".") = {}
        /\ sum8 = 0 /\ i8 = 0
        /\ gets8.f = 1 <=> pc8["task"] \in AfterGetError8 \cup {"t_done"}
        /\ pc8["task"] \in {"t_returnError", "t_done"} =>
              Cardinality(Printed8("[Task] Exception: ")) = 1
        /\ pc8["task"] = "t_done" <=> ret8 = <<-1>>
        /\ ret8 \in {<<>>, <<-1>>}

\* The exception was stored, the task has reported it and returned -1.
C19_Witness ==
    /\ data8.kind = "exception"
    /\ pc8["task"] = "t_done"
    /\ ret8 = <<-1>>
    /\ Printed8("[Task] Exception: ") # {}

\* C20: the promise of ex8 is completed at most once. set_value and
\* set_exception never both complete; the handler of main runs only when
\* set_value has stored nothing, so its set_exception never finds the
\* promise satisfied; get() is called at most once on f and on result.
C20_CompletedAtMostOnce ==
    /\ sets8.value + sets8.exception <= 1
    /\ sets8.value = 1 <=> data8.kind = "value"
    /\ sets8.exception = 1 <=> data8.kind = "exception"
    /\ pc8["main"] = "M8_catch" => (data8.kind = "empty" /\ sets8.value = 0)
    /\ pc8["main"] # "terminated"
    /\ gets8.f <= 1
    /\ gets8.result <= 1
    /\ f8 = "retrieved" <=> gets8.f = 1
    /\ result8 = "retrieved" <=> gets8.result = 1

\* main has returned after its set_value threw: the promise was completed
\* once, by set_exception, and the task retrieved it once.
C20_Witness ==
    /\ pc8["main"] = "M8_done"
    /\ sets8 = [value |-> 0, exception |-> 1]
    /\ gets8 = [f |-> 1, result |-> 0]

\* 0 + 1 + ... + (n - 1)
RECURSIVE SumBelow(_)
SumBelow(n) == IF n <= 0 THEN 0 ELSE (n - 1) + SumBelow(n - 1)

\* C21: Operation returns 0 + 1 + ... + (count - 1) for the count it got
\* through the promise, 45 for the 10 that main sets; the loop keeps sum
\* equal to the sum of the values of i it has passed; result.get() returns
\* in main only when the task has left its loop and returned, and returns
\* that sum, which main prints.
C21_SumOfCount ==
    /\ pc8["task"] \in {"t_test", "t_add", "t_return"} => sum8 = SumBelow(i8)
    /\ pc8["task"] \in {"t_dot", "t_sleep"} => sum8 = SumBelow(i8 + 1)
    /\ pc8["task"] = "t_return" => i8 = count8
    /\ data8.kind = "value" =>
          /\ ret8 \in {<<>>, <<SumBelow(data8.val)>>}
          /\ ret8 # <<>> <=> pc8["task"] = "t_done"
          /\ ret8 # <<>> => (ret8 = <<45>> /\ i8 = 10 /\ Cardinality(Printed8(".")) = 10)
    /\ sumMain8 # <<>> => (pc8["task"] = "t_done" /\ sumMain8 = <<45>>)
    /\ \A k \in Printed8("[main] Sum computed by task = ") :
          out8[k][2] = 45 /\ Cardinality({d \in Printed8(".") : d < k}) = 10

\* main has printed the sum 45 that result.get() returned.
C21_Witness ==
    /\ pc8["main"] = "M8_return"
    /\ sumMain8 = <<45>>
    /\ out8[Len(out8)] = <<"[main] Sum computed by task = ", 45>>

\* main waits in result.get() for a task that waits in f.get() for main.
Deadlock8 ==
    /\ pc8["main"] = "M8_get" /\ ret8 = <<>>
    /\ pc8["task"] = "t_get" /\ data8.kind = "empty"

\* C28: ex8 is deadlock-free. main is never blocked in result.get() while
\* the task is blocked in f.get(); in every state but the final one some
\* thread can take a step; and under fair scheduling every execution reaches
\* the state in which the task has finished and main has returned.
C28_DeadlockFree ==
    /\ [](~Deadlock8)
    /\ []((program = "ex8" /\ ~(pc8["main"] = "M8_done" /\ pc8["task"] = "t_done"))
              => ENABLED Next8)
    /\ <>[](pc8["main"] = "M8_done" /\ pc8["task"] = "t_done")

\* main waited in result.get() for the task, and both have finished.
C28_Witness ==
    /\ pc8["main"] = "M8_done"
    /\ pc8["task"] = "t_done"
    /\ gets8 = [f |-> 1, result |-> 1]

\* Where a line stands in the output of ex10
LinesOf(text) == {k \in 1..Len(out) : out[k] = text}

\* Every line of the first kind stands before every line of the second.
PrintedBefore(first, second) ==
    \A k \in LinesOf(second) : \E j \in LinesOf(first) : j < k

\* C23 as claimed: the downloader's last line always precedes the
\* processor's last line, and main's last line follows both.
C23_FixedOrder ==
    /\ PrintedBefore("[Downloader] Finished download",
                     "[Processor] All data processed, exiting.")
    /\ PrintedBefore("[Downloader] Finished download",
                     "[main] Program finished safely.")
    /\ PrintedBefore("[Processor] All data processed, exiting.",
                     "[main] Program finished safely.")

\* C23: output order at shutdown of ex10. main's last line follows the last
\* line of the downloader and the last line of the processor, each printed
\* once; the downloader prints its line after it has set the flag, and the
\* processor prints its line after it has seen the flag, so the two lines
\* come in either order.
C23_MainLast ==
    /\ PrintedBefore("[Downloader] Finished download",
                     "[main] Program finished safely.")
    /\ PrintedBefore("[Processor] All data processed, exiting.",
                     "[main] Program finished safely.")
    /\ LinesOf("[main] Program finished safely.") # {} =>
          /\ Len(out) = 3
          /\ out[3] = "[main] Program finished safely."
    /\ LinesOf("[Downloader] Finished download") # {} => g_DownloadFinished
    /\ LinesOf("[Processor] All data processed, exiting.") # {} => g_DownloadFinished

\* The processor's last line came first, then the downloader's, then main's.
C23_Witness ==
    out = << "[Processor] All data processed, exiting.",
             "[Downloader] Finished download",
             "[main] Program finished safely." >>

\* The elements of a sequence
Range(q) == {q[k] : k \in 1..Len(q)}

\* C24: exactly-once delivery with several consumers. The items removed so
\* far, followed by the items still queued, are the items pushed, so each
\* item is removed once and none is lost; a consumer is at front() /
\* pop_front() only with the lock held and the list not empty; the values
\* two consumers hold at the same time differ, and no value is processed
\* twice.
C24_ExactlyOnce ==
    program = "ex10" =>
        /\ pushed = popped \o g_Data
        /\ \A c \in consumers :
            /\ pc[c] = "c_front" => (g_Data # <<>> /\ g_Mutex = c)
            /\ value[c] # <<>> => value[c][1] \in Range(popped)
            /\ \A d \in consumers \ {c} :
                  (value[c] # <<>> /\ value[d] # <<>>) => value[c] # value[d]
        /\ Cardinality(Range(processed)) = Len(processed)
        /\ Range(processed) \subseteq Range(popped)

\* Two consumers are processing, outside the lock, the items they removed.
C24_Witness ==
    /\ Cardinality(consumers) = 2
    /\ \A c \in consumers : pc[c] = "c_print"
    /\ g_Mutex = NoThread
    /\ Len(popped) = 2

\* C25: no push after close. No step lengthens g_Data or the history of
\* pushes while g_DownloadFinished is true, and when the flag is true the
\* producer has left its loop with all of its items pushed.
C25_NoPushAfterClose ==
    /\ [][g_DownloadFinished =>
            (Len(g_Data') <= Len(g_Data) /\ pushed' = pushed)]_vars
    /\ [](g_DownloadFinished =>
            /\ i = size
            /\ Len(pushed) = size
            /\ pc[ProducerT] \in {"p_setF", "p_unlockF", "p_notifyF", "p_lockF",
                                  "p_finish", "p_done"})

\* The flag is set while all SIZE items are still queued.
C25_Witness ==
    /\ g_DownloadFinished
    /\ Len(g_Data) = SIZE
    /\ pushed = DownloadedItems

\* What the consumer has removed and not yet printed
Held(c) == IF pc[c] \in {"c_unlock", "c_print"} THEN value[c] ELSE <<>>

\* C26: item conservation in ex10. The items pushed are the items whose
\* processing was printed, then the item the consumer holds unprinted (if
\* any), then the items in g_Data, so the counts add up; and g_Data never
\* holds more than SIZE items.
C26_Conservation ==
    program = "ex10" =>
        /\ Len(pushed) = Len(processed) + Len(g_Data)
                           + (IF pc[TheConsumer] \in {"c_unlock", "c_print"} THEN 1 ELSE 0)
        /\ pushed = processed \o Held(TheConsumer) \o g_Data
        /\ Len(g_Data) <= SIZE

\* The consumer holds an unprinted item, with items printed before it and
\* items queued behind it.
C26_Witness ==
    /\ pc[TheConsumer] = "c_print"
    /\ Len(processed) >= 1
    /\ Len(g_Data) >= 2

\* Where a line stands in the output of ex9
LinesOf9(line) == {k \in 1..Len(out9) : out9[k] = line}

\* C27: the consumer of ex9 never runs ahead of the producer. At most as
\* many items are removed, and as many 'Consumed' lines printed, as items
\* are pushed and 'Produced' lines printed; the k-th 'Consumed' line names
\* k; and every line '[Consumer] Consumed: i' stands behind the line
\* '[Producer] Produced: i'.
C27_ConsumerNeverAhead ==
    program = "ex9" =>
        /\ Len(popped) <= Len(pushed)
        /\ Len(consumed) <= Len(popped)
        /\ Cardinality({k \in 1..Len(out9) : out9[k][1] = "[Consumer] Consumed: "})
             <= Cardinality({k \in 1..Len(out9) : out9[k][1] = "[Producer] Produced: "})
        /\ \A k \in 1..Len(consumed) : consumed[k] = k
        /\ \A n \in 1..SIZE9 :
              \A k \in LinesOf9(<<"[Consumer] Consumed: ", n>>) :
                  \E j \in LinesOf9(<<"[Producer] Produced: ", n>>) : j < k
        /\ \A k \in 1..Len(out9) : out9[k][2] \in 1..SIZE9

\* All lines are out, and the producer had produced its second item before
\* the consumer consumed the first.
C27_Witness ==
    /\ Len(out9) = 2 * SIZE9
    /\ out9[2] = <<"[Producer] Produced: ", 2>>
    /\ out9[2 * SIZE9] = <<"[Consumer] Consumed: ", SIZE9>>

\* C22: ex1 as written never exits normally. threadObj is joinable from its
\* construction on, whether Download has returned or not; main reaches its
\* return in every execution, finds threadObj joinable, and the process
\* ends by std::terminate, never by a normal exit.
C22_TerminateAtReturn ==
    /\ [](pc1["main"] \in {"M1_another", "M1_weAreDone", "M1_return", "M1_done"}
              => joinable1)
    /\ [](exit1 # "normal")
    /\ [](pc1["main"] = "M1_done" <=> exit1 = "terminate")
    /\ [][exit1 = "terminate" => UNCHANGED vars1]_vars
    /\ (program = "ex1") ~> (exit1 = "terminate")

\* std::terminate ended the process while Download was still pushing.
C22_Witness ==
    /\ exit1 = "terminate"
    /\ pc1["threadObj"] = "d_push"
    /\ Len(g_Data1) = 1

=============================================================================
